---- MODULE Spec2Model ----
(***************************************************************************)
(* Verification model of GitSavvy's diff view (core/commands/diff.py).     *)
(*                                                                         *)
(* Texts are sequences of one-character strings; offsets are 0-based as in *)
(* Python and Sublime; a region is a record [a |-> start, b |-> end) with  *)
(* the end excluded.                                                       *)
(*                                                                         *)
(* Three families of pure functions are each run by a specification of     *)
(* their own, which draws the inputs in its initial state and applies the  *)
(* function in its actions:                                                *)
(*   SpecWordDiff   postprocess_word_diff                                  *)
(*   SpecHunk       counted_lines, relative/real_rowcol_in_hunk            *)
(*   SpecFuzzy      shrink_list_sym, fuzzy_search_hunk_content_in_view     *)
(* The commands of one diff view, the refreshes they start and the two     *)
(* threads that run them are the state machine of                          *)
(*   SpecView       GsDiffRefreshCommand, GsDiffStageOrResetHunkCommand,   *)
(*                  GsDiffUndo, GsDiffToggleCachedMode, GsDiffZoom, ...    *)
(***************************************************************************)
EXTENDS Integers, Sequences, FiniteSets, TLC

VARIABLES
    wd_text,      \* postprocess_word_diff: the argument `text`
    wd_offset,    \* postprocess_word_diff: the argument `global_offset`
    wd_out,       \* its return value (text, added_regions, removed_regions)
    wd_runs,      \* how many times it has been applied in a row
    hk_hunk,      \* the hunk under the cursor: header start line and lines
    hk_counted,   \* the value of counted_lines(hunk)
    hk_cursor,    \* the cursor: row relative to the hunk header, view column
    hk_result,    \* the value of real_rowcol_in_hunk for that cursor
    hk_pc,        \* position of the hunk computation
    fz_lines,     \* fuzzy search: the lines of the hunk content or patch
    fz_buffer,    \* fuzzy search: the lines of the view's buffer
    fz_result,    \* fuzzy search: the searches made and their outcome
    fz_pc,        \* position of the fuzzy search
    dv_settings,  \* the diff view: its settings (git_savvy.diff_view.*)
    dv_view,      \* the diff view: the text drawn and the cursor
    dv_repo,      \* the repository: where the change of each hunk is
    dv_git_diff,  \* how `git diff` ends for the file of this view
    dv_worker,    \* the tasks queued on the worker thread
    dv_ui,        \* the draws queued on the UI thread
    dv_last       \* what the handler that ran last did

wd_vars == <<wd_text, wd_offset, wd_out, wd_runs>>
hk_vars == <<hk_hunk, hk_counted, hk_cursor, hk_result, hk_pc>>
fz_vars == <<fz_lines, fz_buffer, fz_result, fz_pc>>
dv_vars ==
    <<dv_settings, dv_view, dv_repo, dv_git_diff, dv_worker, dv_ui, dv_last>>
vars == <<wd_vars, hk_vars, fz_vars, dv_vars>>

\* Python's None, and a value that is not None.
None == [some |-> FALSE]

Some(v) == [some |-> TRUE, val |-> v]

Min(S) == CHOOSE x \in S : \A y \in S : x <= y

Max2(a, b) == IF a >= b THEN a ELSE b

Min2(a, b) == IF a <= b THEN a ELSE b

\* text[from:to] of Python: 0-based, `to` excluded.
Slice(s, from, to) == SubSeq(s, from + 1, to)

RECURSIVE Flatten(_)
Flatten(ss) == IF ss = <<>> THEN <<>> ELSE Head(ss) \o Flatten(Tail(ss))

\* The sequences over S of length at most n.
SeqsUpTo(S, n) == UNION {[1..k -> S] : k \in 0..n}

(***************************************************************************)
(* The variables a specification does not use stay at these values.        *)
(***************************************************************************)
wd_idle ==
    /\ wd_text = <<>>
    /\ wd_offset = 0
    /\ wd_out = None
    /\ wd_runs = 0

hk_idle ==
    /\ hk_hunk = None
    /\ hk_counted = None
    /\ hk_cursor = None
    /\ hk_result = None
    /\ hk_pc = "idle"

fz_idle ==
    /\ fz_lines = <<>>
    /\ fz_buffer = <<>>
    /\ fz_result = None
    /\ fz_pc = "idle"

dv_idle ==
    /\ dv_settings = None
    /\ dv_view = None
    /\ dv_repo = None
    /\ dv_git_diff = "idle"
    /\ dv_worker = <<>>
    /\ dv_ui = <<>>
    /\ dv_last = None

(***************************************************************************)
(* postprocess_word_diff                                                   *)
(***************************************************************************)

\* A variant of AltEnd in which the closing delimiter may share its first
\* character with the opening one, so that `{+}` counts as a marker.
AltEnd_Overlap(text, i, open, mid, close) ==
    IF i + 2 <= Len(text) /\ text[i] = open /\ text[i + 1] = mid
    THEN LET J == {j \in (i + 1)..(Len(text) - 1) :
                      /\ text[j] = mid
                      /\ text[j + 1] = close
                      /\ \A k \in (i + 2)..(j - 1) : text[k] # "\n"}
         IN  IF J = {} THEN 0 ELSE Min(J) + 1
    ELSE 0

\* The end (1-based index of the last character) of the match of
\* WORD_DIFF_MARKERS_RE that begins at 1-based index i of text, 0 if there
\* is none.  `open`/`mid`/`close` are the delimiter characters of one
\* alternative: the lazy `(.*?)` stops at the first closing delimiter, and
\* `.` does not match a newline.
AltEnd(text, i, open, mid, close) ==
    IF i + 3 <= Len(text) /\ text[i] = open /\ text[i + 1] = mid
    THEN LET J == {j \in (i + 2)..(Len(text) - 1) :
                      /\ text[j] = mid
                      /\ text[j + 1] = close
                      /\ \A k \in (i + 2)..(j - 1) : text[k] # "\n"}
         IN  IF J = {} THEN 0 ELSE Min(J) + 1
    ELSE 0

MatchEnd(text, i) ==
    LET e1 == AltEnd(text, i, "{", "+", "}")
    IN  IF e1 # 0 THEN e1 ELSE AltEnd(text, i, "[", "-", "]")

\* The matches re.sub visits: leftmost first, not overlapping.  Each is
\* [start, end) in 0-based offsets of the input, with the matched text.
RECURSIVE MatchesFrom(_, _)
MatchesFrom(text, i) ==
    IF i > Len(text) THEN <<>>
    ELSE LET e == MatchEnd(text, i)
         IN  IF e = 0 THEN MatchesFrom(text, i + 1)
             ELSE <<[start |-> i - 1, end |-> e, group |-> SubSeq(text, i, e)]>>
                  \o MatchesFrom(text, e + 1)

WORD_DIFF_MARKERS_RE(text) == MatchesFrom(text, 1)

\* A variant of MatchOffset that forgets the characters already removed.
MatchOffset_NoShift(global_offset, start, total_matches_so_far) ==
    global_offset + start

\* offset = global_offset + start - (total_matches_so_far * 4)
MatchOffset(global_offset, start, total_matches_so_far) ==
    global_offset + start - (total_matches_so_far * 4)

\* A variant of AppendRegion that puts the new region first.
AppendRegion_Prepend(regions, offset, length) ==
    <<[a |-> offset, b |-> offset + length]>> \o regions

\* regions.append(sublime.Region(offset, offset + len(text)))
AppendRegion(regions, offset, length) ==
    Append(regions, [a |-> offset, b |-> offset + length])

\* The callback of re.sub: it reads and extends the two region lists of the
\* enclosing call and returns the replacement text.
extractor(match, added_regions, removed_regions, global_offset) ==
    LET text == Slice(match.group, 2, Len(match.group) - 2)
        total_matches_so_far == Len(added_regions) + Len(removed_regions)
        offset == MatchOffset(global_offset, match.start, total_matches_so_far)
        is_added == match.group[2] = "+"
    IN  [text |-> text,
         added |-> IF is_added
                   THEN AppendRegion(added_regions, offset, Len(text))
                   ELSE added_regions,
         removed |-> IF is_added
                     THEN removed_regions
                     ELSE AppendRegion(removed_regions, offset, Len(text))]

\* re.sub(extractor, text): the text between the matches is copied, each
\* match is replaced by what the callback returns for it.
RECURSIVE Sub(_, _, _, _, _, _, _)
Sub(text, matches, pos, out, added, removed, global_offset) ==
    IF matches = <<>>
    THEN [text |-> out \o Slice(text, pos, Len(text)),
          added |-> added, removed |-> removed]
    ELSE LET m == Head(matches)
             r == extractor(m, added, removed, global_offset)
         IN  Sub(text, Tail(matches), m.end,
                 out \o Slice(text, pos, m.start) \o r.text,
                 r.added, r.removed, global_offset)

postprocess_word_diff(text, global_offset) ==
    Sub(text, WORD_DIFF_MARKERS_RE(text), 0, <<>>, <<>>, <<>>, global_offset)

\* The inputs: texts made of at most MaxTokens pieces, and the example of
\* the specification, "{+a+}bc[-d-]e".
MaxTokens == 4

WordDiffTokens ==
    { <<"{", "+">>, <<"+", "}">>, <<"[", "-">>, <<"-", "]">>,
      <<"a">>, <<"\n">>, <<"}">>, <<"{", "+", "a", "b", "+", "}">> }

WordDiffExample ==
    <<"{", "+", "a", "+", "}", "b", "c", "[", "-", "d", "-", "]", "e">>

WordDiffTexts ==
    {Flatten(ts) : ts \in SeqsUpTo(WordDiffTokens, MaxTokens)}
        \cup {WordDiffExample}

GlobalOffsets == {0, 3}

WordDiffInit ==
    /\ wd_text \in WordDiffTexts
    /\ wd_offset \in GlobalOffsets
    /\ wd_out = None
    /\ wd_runs = 0
    /\ hk_idle
    /\ fz_idle
    /\ dv_idle

\* The refresh calls postprocess_word_diff(diff, len(prelude)).
PostprocessWordDiff ==
    /\ wd_runs = 0
    /\ wd_out' = postprocess_word_diff(wd_text, wd_offset)
    /\ wd_runs' = 1
    /\ UNCHANGED <<wd_text, wd_offset, hk_vars, fz_vars, dv_vars>>

\* The function applied once more, to the text it returned.
PostprocessAgain ==
    /\ wd_runs = 1
    /\ wd_text' = wd_out.text
    /\ wd_out' = postprocess_word_diff(wd_out.text, wd_offset)
    /\ wd_runs' = 2
    /\ UNCHANGED <<wd_offset, hk_vars, fz_vars, dv_vars>>

WordDiffNext == PostprocessWordDiff \/ PostprocessAgain

SpecWordDiff == WordDiffInit /\ [][WordDiffNext]_vars

(***************************************************************************)
(* Hunks: counted_lines, relative_rowcol_in_hunk, real_rowcol_in_hunk      *)
(*                                                                         *)
(* A hunk is [from_line_start, lines]: the destination start line its      *)
(* header gives (None if the header has none) and its content lines, each  *)
(* [mode, content] with mode one of " ", "-", "+" and content the line's   *)
(* text after the mode character.                                          *)
(***************************************************************************)

\* HunkLine.is_from_line: a deletion.
is_from_line(line) == line.mode = "-"

\* HunkLine.is_to_line: an addition.
is_to_line(line) == line.mode = "+"

\* HunkLine.is_context: neither of the two.
is_context(line) == ~is_from_line(line) /\ ~is_to_line(line)

\* line_indentation: the number of leading blanks of the line.
line_indentation(content) ==
    Cardinality({i \in 1..Len(content) : \A j \in 1..i : content[j] = " "})

\* content.strip() is not empty.
HasContent(content) == \E i \in 1..Len(content) : content[i] # " "

\* A variant of NextB that counts the lines of the a-side.
NextB_ASide(line, b) == IF ~is_to_line(line) THEN b + 1 ELSE b

\* if not line.is_from_line(): b += 1
NextB(line, b) == IF ~is_from_line(line) THEN b + 1 ELSE b

\* The generator: every line is yielded with the b it has before the line.
RECURSIVE _recount_lines(_, _)
_recount_lines(lines, b) ==
    IF lines = <<>> THEN <<>>
    ELSE <<[line |-> Head(lines), b |-> b]>>
         \o _recount_lines(Tail(lines), NextB(Head(lines), b))

\* None if the header gives no start line, else the list of (line, b).
counted_lines(hunk) ==
    LET b == hunk.from_line_start
    IN  IF b = None THEN None ELSE Some(_recount_lines(hunk.lines, b.val))

\* (pt_row - head_row, max(col, 1)) for a cursor at (pt_row, col) of the view
\* and a hunk whose header is on head_row.
relative_rowcol_in_hunk(head_row, pt_row, col) ==
    <<pt_row - head_row, Max2(col, 1)>>

\* The row the header line stands for: the first line that is no deletion
\* and has content, 1 if there is none.
FirstVisibleRow(hunk_lines) ==
    LET I == {index \in 1..Len(hunk_lines) :
                 /\ ~is_from_line(hunk_lines[index].line)
                 /\ HasContent(hunk_lines[index].line.content)}
    IN  IF I = {} THEN 1 ELSE Min(I)

\* A variant of LineAt that is off by one row.
LineAt_OffByOne(hunk_lines, row_in_hunk) ==
    hunk_lines[Min2(row_in_hunk + 1, Len(hunk_lines))]

\* hunk_lines[row_in_hunk - 1] of the 0-based Python list.
LineAt(hunk_lines, row_in_hunk) == hunk_lines[row_in_hunk]

\* A variant of ClampCol that takes the larger of the two.
ClampCol_Max(col, next_line) == Max2(col, Len(next_line.content) + 1)

\* min(col, len(next_line.content) + 1)
ClampCol(col, next_line) == Min2(col, Len(next_line.content) + 1)

\* A variant of PreviousRow without the lower limit.
PreviousRow_NoLimit(b) == b - 1

\* max(1, b - 1)
PreviousRow(b) == Max2(1, b - 1)

\* next_lines_indentation + 1
IndentedCol(next_lines_indentation) == next_lines_indentation + 1

\* The loop over hunk_lines[row_in_hunk:] for a cursor on the deletion
\* `line`, from the 1-based index i on; its else branch when the list ends.
RECURSIVE NextAvailable(_, _, _, _, _)
NextAvailable(hunk_lines, i, line, b, col) ==
    IF i > Len(hunk_lines) THEN <<b, 1>>
    ELSE LET next_line == hunk_lines[i].line
             next_b == hunk_lines[i].b
         IN  IF is_to_line(next_line)
             THEN <<next_b, ClampCol(col, next_line)>>
             ELSE IF is_context(next_line)
             THEN LET next_lines_indentation ==
                          line_indentation(next_line.content)
                  IN  IF next_lines_indentation = line_indentation(line.content)
                      THEN <<next_b, IndentedCol(next_lines_indentation)>>
                      ELSE <<PreviousRow(b), 1>>
             ELSE NextAvailable(hunk_lines, i + 1, line, b, col)

\* A variant of HeaderTarget that always takes the first content line.
HeaderTarget_FirstLine(hunk_lines) == 1

\* The row a cursor on the header line is moved to.
HeaderTarget(hunk_lines) == FirstVisibleRow(hunk_lines)

\* Translate a relative (row, col) to a (row, col) of the file; None if the
\* hunk has no start line or no lines.
real_rowcol_in_hunk(hunk, relative_rowcol) ==
    LET counted == counted_lines(hunk)
    IN  IF counted = None THEN None
        ELSE IF counted.val = <<>> THEN None
        ELSE LET hunk_lines == counted.val
                 on_header == relative_rowcol[1] = 0
                 row_in_hunk == IF on_header THEN HeaderTarget(hunk_lines)
                                ELSE relative_rowcol[1]
                 col == IF on_header THEN 1 ELSE relative_rowcol[2]
                 line == LineAt(hunk_lines, row_in_hunk).line
                 b == LineAt(hunk_lines, row_in_hunk).b
             IN  IF ~is_from_line(line) THEN Some(<<b, col>>)
                 ELSE Some(NextAvailable(hunk_lines, row_in_hunk + 1,
                                         line, b, col))

\* The inputs: hunks of at most MaxLines lines with or without a start
\* line, and the hunk ["-foo", "+bar"] that starts at line 10.
MaxLines == 3

LineContents == { <<>>, <<" ">>, <<"x">>, <<" ", "x">> }

HunkLines == [mode : {" ", "-", "+"}, content : LineContents]

StartLines == {None, Some(0), Some(1), Some(3)}

FooBarHunk ==
    [from_line_start |-> Some(10),
     lines |-> << [mode |-> "-", content |-> <<"f", "o", "o">>],
                  [mode |-> "+", content |-> <<"b", "a", "r">>] >>]

\* git gives the start line 0 only to a hunk with nothing on the b-side
\* (`+0,0`), whose lines are all deletions.
Hunks ==
    {h \in [from_line_start : StartLines,
            lines : SeqsUpTo(HunkLines, MaxLines)] :
        h.from_line_start = Some(0) =>
            \A i \in 1..Len(h.lines) : is_from_line(h.lines[i])}
        \cup {FooBarHunk}

\* The rows the header line may be on in the view.
HeadRows == {0, 7}

\* The columns a cursor can have on a row of the hunk: from 0 (on the mode
\* character) to the end of the line; the header line is longer.
CursorCols(hunk, row) ==
    IF row = 0 THEN {0, 2} ELSE 0..(Len(hunk.lines[row].content) + 1)

HunkInit ==
    /\ hk_hunk \in Hunks
    /\ hk_counted = None
    /\ hk_cursor = None
    /\ hk_result = None
    /\ hk_pc = "input"
    /\ wd_idle
    /\ fz_idle
    /\ dv_idle

\* counted_lines(hunk)
CountedLines ==
    /\ hk_pc = "input"
    /\ hk_counted' = counted_lines(hk_hunk)
    /\ hk_pc' = "counted"
    /\ UNCHANGED <<hk_hunk, hk_cursor, hk_result, wd_vars, fz_vars, dv_vars>>

\* jump_position_to_file for a cursor in the hunk:
\* real_rowcol_in_hunk(hunk, relative_rowcol_in_hunk(view, hunk, pt)).
JumpPositionToFile ==
    /\ hk_pc = "input"
    /\ \E head_row \in HeadRows, row \in 0..Len(hk_hunk.lines) :
          \E col \in CursorCols(hk_hunk, row) :
              LET relative_rowcol ==
                      relative_rowcol_in_hunk(head_row, head_row + row, col)
              IN  /\ hk_cursor' = Some(relative_rowcol)
                  /\ hk_result' = real_rowcol_in_hunk(hk_hunk, relative_rowcol)
    /\ hk_counted' = counted_lines(hk_hunk)
    /\ hk_pc' = "jumped"
    /\ UNCHANGED <<hk_hunk, wd_vars, fz_vars, dv_vars>>

HunkNext == CountedLines \/ JumpPositionToFile

SpecHunk == HunkInit /\ [][HunkNext]_vars

(***************************************************************************)
(* shrink_list_sym, fuzzy_search_hunk_content_in_view                      *)
(*                                                                         *)
(* The buffer of the view is a list of lines; its text is the lines joined *)
(* by newlines.  A line that begins with "@" is a hunk header (`@@ ...`),  *)
(* a line that begins with "#" is a file header (`diff --git ...`).        *)
(***************************************************************************)

\* '\n'.join(lines)
RECURSIVE Join(_)
Join(lines) ==
    IF lines = <<>> THEN <<>>
    ELSE IF Len(lines) = 1 THEN lines[1]
    ELSE lines[1] \o <<"\n">> \o Join(Tail(lines))

\* The region view.find returns when it finds nothing.
NotFound == [a |-> 0 - 1, b |-> 0 - 1]

\* bool(region): a region is true if it is not empty.
RegionTruthy(region) == region.b # region.a

\* view.find(pattern, 0, sublime.LITERAL): the region of the first
\* occurrence of pattern in the text, Region(-1, -1) if there is none.
Find(text, pattern) ==
    LET I == {i \in 0..(Len(text) - Len(pattern)) :
                 Slice(text, i, i + Len(pattern)) = pattern}
    IN  IF pattern = <<>> \/ I = {} THEN NotFound
        ELSE [a |-> Min(I), b |-> Min(I) + Len(pattern)]

\* A variant of Shrink that strips a line from the front only.
Shrink_Front(list) == SubSeq(list, 2, Len(list))

\* list[1:-1]
Shrink(list) == SubSeq(list, 2, Len(list) - 1)

\* The lists the generator yields, in order.
RECURSIVE shrink_list_sym(_)
shrink_list_sym(list) ==
    IF list = <<>> THEN <<>>
    ELSE <<list>> \o shrink_list_sym(Shrink(list))

\* The offset at which line i of the buffer begins.
RECURSIVE LineStart(_, _)
LineStart(buffer, i) ==
    IF i <= 1 THEN 0
    ELSE LineStart(buffer, i - 1) + Len(buffer[i - 1]) + 1

IsHunkHeader(line) == Len(line) >= 1 /\ line[1] = "@"

IsHeader(line) == Len(line) >= 1 /\ line[1] \in {"@", "#"}

\* SplittedDiff.from_view(view).head_and_hunk_for_pt(pt): the header line of
\* the hunk that holds pt, as the index of the line in the buffer; 0 if pt
\* lies in no hunk.  A hunk runs from its header line to the next header
\* line or to the end of the buffer.
head_and_hunk_for_pt(buffer, pt) ==
    LET H == {h \in 1..Len(buffer) :
                 /\ IsHunkHeader(buffer[h])
                 /\ LineStart(buffer, h) <= pt
                 /\ \A j \in (h + 1)..Len(buffer) :
                       IsHeader(buffer[j]) => pt < LineStart(buffer, j)}
    IN  IF H = {} THEN 0 ELSE Min(H)

\* A variant of HunkHeaderRegion that reports the lines below the header.
HunkHeaderRegion_Content(buffer, h) ==
    [a |-> LineStart(buffer, h + 1), b |-> Len(Join(buffer))]

\* sublime.Region(hunk_header.a, hunk_header.b) for the hunk whose header is
\* line h of the buffer.
HunkHeaderRegion(buffer, h) ==
    [a |-> LineStart(buffer, h), b |-> LineStart(buffer, h) + Len(buffer[h])]

\* The loop of fuzzy_search_hunk_content_in_view over the candidates left:
\* `searches` are the patterns searched so far.
RECURSIVE FuzzyLoop(_, _, _)
FuzzyLoop(buffer, candidates, searches) ==
    IF candidates = <<>>
    THEN [searches |-> searches, found |-> NotFound, region |-> None]
    ELSE LET hunk_content == Head(candidates)
             region == Find(Join(buffer), Join(hunk_content))
             h == head_and_hunk_for_pt(buffer, region.a)
         IN  IF RegionTruthy(region)
             THEN [searches |-> Append(searches, hunk_content),
                   found |-> region,
                   region |->
                       IF h # 0
                       THEN Some(HunkHeaderRegion(buffer, h))
                       ELSE None]
             ELSE FuzzyLoop(buffer, Tail(candidates),
                            Append(searches, hunk_content))

fuzzy_search_hunk_content_in_view(buffer, lines) ==
    FuzzyLoop(buffer, shrink_list_sym(lines), <<>>)

\* The inputs: at most MaxContentLines lines searched for in a buffer of at
\* most MaxBufferLines lines, and the lines [a, b, c, d, e] searched for in
\* buffers that hold [b, c, d].
MaxContentLines == 4

MaxBufferLines == 3

ContentLineSet == { <<"a">>, <<"b">> }

BufferLineSet == { <<"@">>, <<"#">>, <<"a">>, <<"b">>, <<"b", "a">> }

FiveLines == << <<"a">>, <<"b">>, <<"c">>, <<"d">>, <<"e">> >>

FiveLinesBuffers ==
    { << <<"#">>, <<"@">>, <<"b">>, <<"c">>, <<"d">> >>,
      << <<"b">>, <<"c">>, <<"d">>, <<"@">>, <<"c">> >>,
      << <<"#">>, <<"@">>, <<"a">>, <<"b">>, <<"c">>, <<"d">>, <<"e">> >>,
      << <<"#">>, <<"@">>, <<"x">>, <<"c">>, <<"x">> >> }

FuzzyInit ==
    /\ \/ /\ fz_lines \in SeqsUpTo(ContentLineSet, MaxContentLines)
          /\ fz_buffer \in SeqsUpTo(BufferLineSet, MaxBufferLines)
       \/ /\ fz_lines = FiveLines
          /\ fz_buffer \in FiveLinesBuffers
    /\ fz_result = None
    /\ fz_pc = "input"
    /\ wd_idle
    /\ hk_idle
    /\ dv_idle

\* fuzzy_search_hunk_content_in_view(view, lines)
FuzzySearch ==
    /\ fz_pc = "input"
    /\ fz_result' = fuzzy_search_hunk_content_in_view(fz_buffer, fz_lines)
    /\ fz_pc' = "done"
    /\ UNCHANGED <<fz_lines, fz_buffer, wd_vars, hk_vars, dv_vars>>

FuzzyNext == FuzzySearch

SpecFuzzy == FuzzyInit /\ [][FuzzyNext]_vars

\* A variant of FirstHunk that takes the last hunk of the patch.
FirstHunk_Last(patch) ==
    LET H == {i \in 1..Len(patch) : IsHunkHeader(patch[i])}
    IN  IF H = {} THEN 0 ELSE CHOOSE i \in H : \A j \in H : j <= i

\* SplittedDiff.from_string(patch).hunks[0], for a patch given as its
\* lines: the index of the header line of its first hunk; 0 where hunks[0]
\* raises IndexError.
FirstHunk(patch) ==
    LET H == {i \in 1..Len(patch) : IsHunkHeader(patch[i])}
    IN  IF H = {} THEN 0 ELSE Min(H)

\* hunk.content().text.splitlines() for the hunk whose header is line h of
\* the patch: the lines below the header up to the next header line or the
\* end of the patch.
HunkContentLines(patch, h) ==
    LET J == {j \in (h + 1)..Len(patch) : IsHeader(patch[j])}
        end == IF J = {} THEN Len(patch) ELSE Min(J) - 1
    IN  SubSeq(patch, h + 1, end)

\* find_hunk_in_view(view, patch): `header` is the region view.find gave
\* for the header text, `fuzzy` what the content search did if it ran, and
\* `region` the value returned.
find_hunk_in_view(buffer, patch) ==
    LET h == FirstHunk(patch)
        header == Find(Join(buffer), patch[h])
        fuzzy == fuzzy_search_hunk_content_in_view(
                     buffer, HunkContentLines(patch, h))
    IN  IF h = 0
        THEN [hunk |-> 0, header |-> None, fuzzy |-> None, region |-> None]
        ELSE IF RegionTruthy(header)
        THEN [hunk |-> h, header |-> Some(header), fuzzy |-> None,
              region |-> Some(header)]
        ELSE [hunk |-> h, header |-> Some(header), fuzzy |-> Some(fuzzy),
              region |-> fuzzy.region]

\* The inputs: patches of at most MaxPatchLines lines, with and without
\* file headers and hunks, searched for in a buffer of at most
\* MaxBufferLines lines; "@" also occurs inside the lines "@1" and "a@".
MaxPatchLines == 3

PatchLineSet == { <<"#">>, <<"@">>, <<"@", "1">>, <<"a">>, <<"b">> }

ViewLineSet == { <<"@">>, <<"a", "@">>, <<"a">>, <<"b">> }

FindHunkInit ==
    /\ fz_lines \in SeqsUpTo(PatchLineSet, MaxPatchLines)
    /\ fz_buffer \in SeqsUpTo(ViewLineSet, MaxBufferLines)
    /\ fz_result = None
    /\ fz_pc = "input"
    /\ wd_idle
    /\ hk_idle
    /\ dv_idle

\* find_hunk_in_view(view, patch)
FindHunk ==
    /\ fz_pc = "input"
    /\ fz_result' = find_hunk_in_view(fz_buffer, fz_lines)
    /\ fz_pc' = "done"
    /\ UNCHANGED <<fz_lines, fz_buffer, wd_vars, hk_vars, dv_vars>>

FindHunkNext == FindHunk

SpecFindHunk == FindHunkInit /\ [][FindHunkNext]_vars

(***************************************************************************)
(* The diff view: its commands, its refreshes and the two threads          *)
(*                                                                         *)
(* The file shown has the hunks HunkIds.  The change of a hunk is in the   *)
(* working tree only ("worktree", an unstaged change), in the index as     *)
(* well ("index", a staged change) or in neither ("clean").  A patch is    *)
(* the hunk under the cursor, named by its id; a cursor position is the id *)
(* of the hunk it lies in, 0 if it lies in none.  The text of a diff is    *)
(* the set of hunks it lists together with the parameters it was computed  *)
(* for, which the title and the prelude spell out.  The view is attached   *)
(* to a window.                                                            *)
(***************************************************************************)
HunkIds == {1}

\* An argument of self.git that is None.
NoArg == "None"

\* settings.get(...) of a key never set, and the empty string.
NoCursors == [some |-> FALSE]

NoPatch == 0

NoMessage == [kind |-> "none", text |-> ""]

WORD_DIFF_PATTERNS ==
    << NoArg,
       "[a-zA-Z_\\-\\x80-\\xff]+|[^[:space:]]|[\\xc0-\\xff][\\x80-\\xbf]+",
       "." >>

\* list[i]: the element at the 0-based index i, counted from the end for a
\* negative i; none where Python raises IndexError.
ListIndex(list, i) ==
    IF 0 <= i /\ i < Len(list) THEN Some(list[i + 1])
    ELSE IF 0 - Len(list) <= i /\ i < 0 THEN Some(list[Len(list) + i + 1])
    ELSE None

\* A variant of ApplyArgs that passes --cached in cached mode only.
ApplyArgs_CachedInCachedMode(reset, in_cached_mode, context_lines) ==
    << "apply",
       IF reset \/ in_cached_mode THEN "-R" ELSE NoArg,
       IF in_cached_mode THEN "--cached" ELSE NoArg,
       IF context_lines = 0 THEN "--unidiff-zero" ELSE NoArg,
       "-" >>

\* The tuple `args` of apply_patch.
ApplyArgs(reset, in_cached_mode, context_lines) ==
    << "apply",
       IF reset \/ in_cached_mode THEN "-R" ELSE NoArg,
       IF in_cached_mode \/ ~reset THEN "--cached" ELSE NoArg,
       IF context_lines = 0 THEN "--unidiff-zero" ELSE NoArg,
       "-" >>

\* args[1] = "-R" if not args[1] else None
ToggleReverse(args) ==
    [args EXCEPT ![2] = IF @ = NoArg THEN "-R" ELSE NoArg]

\* git apply: where the change of the patch must be for the patch to apply,
\* and where it is afterwards.  Forward to the index stages an unstaged
\* change, reverse on the index unstages a staged one, reverse on the
\* working tree reverts an unstaged one, forward on the working tree brings
\* a reverted one back.
ApplyFrom(args) ==
    IF args[3] = "--cached"
    THEN IF args[2] = "-R" THEN "index" ELSE "worktree"
    ELSE IF args[2] = "-R" THEN "worktree" ELSE "clean"

ApplyTo(args) ==
    IF args[3] = "--cached"
    THEN IF args[2] = "-R" THEN "worktree" ELSE "index"
    ELSE IF args[2] = "-R" THEN "clean" ELSE "worktree"

\* self.git(*args, stdin=patch) for git apply: the patch applies where the
\* change is where the arguments expect it; otherwise git fails and
\* self.git raises GitSavvyError.
git_apply(repo, args, patch) ==
    IF repo[patch] = ApplyFrom(args)
    THEN [ok |-> TRUE, repo |-> [repo EXCEPT ![patch] = ApplyTo(args)]]
    ELSE [ok |-> FALSE, repo |-> repo]

\* The text a refresh computes: the output of `git diff [--cached] ...` for
\* the repository, after the title and prelude made from the settings.  The
\* base and target commits the diff was asked for are part of the text.
git_diff(repo, settings) ==
    [hunks |-> {h \in HunkIds :
                   repo[h] = IF settings.in_cached_mode THEN "index"
                             ELSE "worktree"},
     in_cached_mode |-> settings.in_cached_mode,
     base_commit |-> settings.base_commit,
     target_commit |-> settings.target_commit]

\* The hunks the text of the view lists.
Shown(view) == IF view.text.some THEN view.text.val.hunks ELSE {}

\* Where a cursor put at a position of the old text lies in the text shown.
CursorIn(view, pos) == IF pos \in Shown(view) THEN pos ELSE 0

\* set_and_show_cursor(view, cursors)
set_and_show_cursor(view, pos) == [view EXCEPT !.sel = CursorIn(view, pos)]

\* _draw: gs_replace_view_text with restore_cursors, then gs_diff_navigate
\* (the cursor travels to the first hunk) if `navigate`.
_draw(view, text, navigate) ==
    LET drawn == [view EXCEPT !.text = Some(text)]
    IN  IF navigate /\ text.hunks # {}
        THEN [drawn EXCEPT !.sel = Min(text.hunks)]
        ELSE [drawn EXCEPT !.sel = CursorIn(drawn, view.sel)]

\* find_hunk_in_view(view, patch): the header of the patch's hunk, or its
\* content, is found in the text iff the text lists the hunk.
HunkInView(view, patch) ==
    IF patch \in Shown(view) THEN Some(patch) ELSE None

(***************************************************************************)
(* A handler runs on a thread from a state `st` of the view and its        *)
(* surroundings and ends in another; `st` also collects what the handler   *)
(* did: the git apply it ran, how its git diff ended, whether it replaced  *)
(* the text of the view, the message it showed, the file it opened, and    *)
(* whether an exception ended it.                                          *)
(***************************************************************************)
Start(cmd, thread, arg) ==
    [settings |-> dv_settings, view |-> dv_view, repo |-> dv_repo,
     worker |-> dv_worker, ui |-> dv_ui,
     cmd |-> cmd, thread |-> thread, arg |-> arg,
     apply |-> None, diff |-> "none", drew |-> FALSE, message |-> NoMessage,
     opened |-> FALSE, raised |-> FALSE,
     word_diff_regex |-> None, postprocessed |-> FALSE]

Effects(st) ==
    [cmd |-> st.cmd, thread |-> st.thread, arg |-> st.arg,
     apply |-> st.apply, diff |-> st.diff, drew |-> st.drew,
     message |-> st.message, opened |-> st.opened, raised |-> st.raised,
     word_diff_regex |-> st.word_diff_regex,
     postprocessed |-> st.postprocessed]

Finish(st) ==
    /\ dv_settings' = st.settings
    /\ dv_view' = st.view
    /\ dv_repo' = st.repo
    /\ dv_worker' = st.worker
    /\ dv_ui' = st.ui
    /\ dv_last' = Effects(st)
    /\ UNCHANGED <<dv_git_diff, wd_vars, hk_vars, fz_vars>>

\* A variant of DrawsInPlace that draws where the diff was computed.
DrawsInPlace_Always(runs_on_ui_thread) == TRUE

\* `if runs_on_ui_thread: draw() else: enqueue_on_ui(draw)`
DrawsInPlace(runs_on_ui_thread) == runs_on_ui_thread

\* A variant of DiffDisabled that never returns early.
DiffDisabled_Never(settings) == FALSE

\* `if self.view.settings().get("git_savvy.disable_diff"): return`
DiffDisabled(settings) == settings.disable_diff

\* `err.args and type(err.args[0]) == UnicodeDecodeError`
IsDecodeError(err) == err = "UnicodeDecodeError"

\* GsDiffRefreshCommand.run_impl
run_impl(st, runs_on_ui_thread) ==
    LET word_diff_regex ==
            ListIndex(WORD_DIFF_PATTERNS, st.settings.show_word_diff)
        s0 == [st EXCEPT !.word_diff_regex = word_diff_regex]
    IN  IF DiffDisabled(st.settings) THEN st
        ELSE IF ~word_diff_regex.some
        THEN [st EXCEPT !.diff = "IndexError", !.raised = TRUE]
        ELSE IF dv_git_diff # "ok"
        THEN IF IsDecodeError(dv_git_diff)
             THEN [s0 EXCEPT !.diff = dv_git_diff,
                             !.settings.disable_diff = TRUE]
             ELSE [s0 EXCEPT !.diff = dv_git_diff, !.raised = TRUE]
        ELSE LET text == git_diff(s0.repo, s0.settings)
                 old_diff == s0.settings.raw_diff
                 s1 == [s0 EXCEPT !.diff = "ok",
                                  !.settings.raw_diff = text.hunks,
                                  !.postprocessed =
                                      word_diff_regex.val # NoArg]
                 navigate == old_diff = {}
             IN  IF DrawsInPlace(runs_on_ui_thread)
                 THEN [s1 EXCEPT !.view = _draw(s1.view, text, navigate),
                                 !.drew = TRUE]
                 ELSE [s1 EXCEPT !.ui = Append(@, [text |-> text,
                                                   navigate |-> navigate])]

\* GsDiffRefreshCommand.run
GsDiffRefreshCommand(st, sync) ==
    IF sync THEN run_impl(st, sync)
    ELSE [st EXCEPT !.worker = Append(@, "run_impl")]

StatusMessage(text) == [kind |-> "status", text |-> text]

\* GsDiffToggleSetting.run(edit, setting="ignore_whitespace")
GsDiffToggleSetting(st) ==
    LET next_mode == ~st.settings.ignore_whitespace
        s1 == [st EXCEPT
                  !.settings.ignore_whitespace = next_mode,
                  !.message = StatusMessage(
                      IF next_mode THEN "ignore_whitespace is now True"
                      ELSE "ignore_whitespace is now False")]
    IN  GsDiffRefreshCommand(s1, TRUE)

\* A variant of NextWordDiffMode that does not wrap around.
NextWordDiffMode_NoWrap(current_mode) == current_mode + 1

\* `next_mode = (current_mode + 1) % len(WORD_DIFF_PATTERNS)`
NextWordDiffMode(current_mode) ==
    (current_mode + 1) % Len(WORD_DIFF_PATTERNS)

\* GsDiffCycleWordDiff.run
GsDiffCycleWordDiff(st) ==
    LET current_mode == st.settings.show_word_diff
        next_mode == NextWordDiffMode(current_mode)
    IN  GsDiffRefreshCommand(
            [st EXCEPT !.settings.show_word_diff = next_mode], TRUE)

\* A commit range "a...b" is the sequence <<a, "...", b>>, a commit <<a>>,
\* no commit the empty sequence.
HasThreeDots(commit) == \E i \in 1..Len(commit) : commit[i] = "..."

\* A variant of FlipThreeDots that leaves the commit as it is.
FlipThreeDots_Keep(commit) == commit

\* `a, b = base_commit.split("...")` and `"{}...{}".format(b, a)`, for a
\* commit with one "...".
FlipThreeDots(commit) ==
    LET i == CHOOSE k \in 1..Len(commit) : commit[k] = "..."
        a == SubSeq(commit, 1, i - 1)
        b == SubSeq(commit, i + 1, Len(commit))
    IN  b \o <<"...">> \o a

\* GsDiffToggleCachedMode.run
GsDiffToggleCachedMode(st) ==
    LET base_commit == st.settings.base_commit
        target_commit == st.settings.target_commit
        last_cursors == st.settings.last_cursors
        next_mode == ~st.settings.in_cached_mode
        s1 == [st EXCEPT
                  !.settings.last_cursors = Some(st.view.sel),
                  !.settings.in_cached_mode = next_mode,
                  !.message = StatusMessage(
                      IF next_mode THEN "Showing staged changes"
                      ELSE "Showing unstaged changes")]
        s2 == GsDiffRefreshCommand(s1, TRUE)
        just_hunked == s2.settings.just_hunked
        s3 == [s2 EXCEPT !.settings.just_hunked = NoPatch]
        region == HunkInView(s3.view, just_hunked)
    IN  IF base_commit # <<>> /\ target_commit # <<>>
        THEN GsDiffRefreshCommand(
                 [st EXCEPT !.settings.base_commit = target_commit,
                            !.settings.target_commit = base_commit], TRUE)
        ELSE IF base_commit # <<>> /\ HasThreeDots(base_commit)
        THEN GsDiffRefreshCommand(
                 [st EXCEPT !.settings.base_commit =
                                FlipThreeDots(base_commit)],
                 TRUE)
        ELSE IF s2.raised THEN s2
        ELSE IF just_hunked # NoPatch /\ last_cursors.some
        THEN IF region.some
             THEN [s3 EXCEPT !.view = set_and_show_cursor(@, region.val)]
             ELSE [s3 EXCEPT !.view = set_and_show_cursor(@, last_cursors.val)]
        ELSE IF last_cursors.some
        THEN [s2 EXCEPT !.view = set_and_show_cursor(@, last_cursors.val)]
        ELSE s2

\* A variant of NextContextLines that does not stop at zero.
NextContextLines_Unclamped(current, amount) == current + amount

\* `next = max(current + amount, 0)`
NextContextLines(current, amount) == Max2(current + amount, 0)

\* GsDiffZoom.run(edit, amount)
GsDiffZoom(st, amount) ==
    LET current == st.settings.context_lines
        next == NextContextLines(current, amount)
        s1 == [st EXCEPT !.settings.context_lines = next]
        cur_hunks == {h \in HunkIds : h = st.view.sel}
        s2 == GsDiffRefreshCommand(s1, TRUE)
        cursors == {h \in cur_hunks : HunkInView(s2.view, h).some}
    IN  IF s2.raised THEN s2
        ELSE IF cursors # {}
        THEN [s2 EXCEPT !.view = set_and_show_cursor(@, Min(cursors))]
        ELSE s2

\* GsDiffStageOrResetHunkCommand.apply_patch
apply_patch(st, patch, pts, reset) ==
    LET in_cached_mode == st.settings.in_cached_mode
        context_lines == st.settings.context_lines
        args == ApplyArgs(reset, in_cached_mode, context_lines)
        git == git_apply(st.repo, args, patch)
        s1 == [st EXCEPT !.apply = Some([args |-> args, stdin |-> patch,
                                         ok |-> git.ok])]
        s2 == [s1 EXCEPT
                  !.repo = git.repo,
                  !.settings.history =
                      Append(@, [args |-> args, patch |-> patch, pts |-> pts,
                                 in_cached_mode |-> in_cached_mode]),
                  !.settings.just_hunked = patch]
    IN  IF git.ok THEN GsDiffRefreshCommand(s2, TRUE)
        ELSE [s1 EXCEPT !.raised = TRUE]

\* A variant of NotClean that looks at ignore_whitespace only.
NotClean_WhitespaceOnly(ignore_whitespace, show_word_diff) ==
    ignore_whitespace

\* `if ignore_whitespace or show_word_diff`
NotClean(ignore_whitespace, show_word_diff) ==
    ignore_whitespace \/ show_word_diff # 0

\* A variant of PatchUnderCursor that falls back to the first hunk shown.
PatchUnderCursor_FirstHunk(view) ==
    IF view.sel # 0 THEN view.sel
    ELSE IF Shown(view) # {} THEN Min(Shown(view)) ELSE NoPatch

\* The text of the header and hunk under the cursor, empty if the cursor
\* lies in no hunk.
PatchUnderCursor(view) == view.sel

\* GsDiffStageOrResetHunkCommand.run(edit, reset)
GsDiffStageOrResetHunkCommand(st, reset) ==
    LET ignore_whitespace == st.settings.ignore_whitespace
        show_word_diff == st.settings.show_word_diff
        cursor_pts == st.view.sel
        patch == PatchUnderCursor(st.view)
    IN  IF NotClean(ignore_whitespace, show_word_diff)
        THEN [st EXCEPT !.message =
                 [kind |-> "error",
                  text |-> "You have to be in a clean diff to stage."]]
        ELSE IF patch # NoPatch
        THEN apply_patch(st, patch, cursor_pts, reset)
        ELSE [st EXCEPT !.message = StatusMessage("Not within a hunk")]

\* The jump positions of GsDiffOpenFileAtHunkCommand.run: one for the hunk
\* under the cursor, if jump_position_to_file finds a file and a line for
\* it (`mapped`).
JumpPositions(view, mapped) ==
    {h \in HunkIds : h = view.sel /\ mapped}

\* GsDiffOpenFileAtHunkCommand.run
GsDiffOpenFileAtHunkCommand(st, mapped) ==
    LET jump_positions == JumpPositions(st.view, mapped)
    IN  IF jump_positions = {}
        THEN [st EXCEPT !.message =
                 [kind |-> "flash", text |-> "Not within a hunk"]]
        ELSE [st EXCEPT !.opened = TRUE]

\* A variant of UndoStackEmpty that refreshes the view as well.
UndoStackEmpty_Refresh(st) ==
    GsDiffRefreshCommand(
        [st EXCEPT !.message = StatusMessage("Undo stack is empty")], TRUE)

\* GsDiffUndo.run with an empty history.
UndoStackEmpty(st) ==
    [st EXCEPT !.message = StatusMessage("Undo stack is empty")]

\* A variant of PopIndex that takes the oldest record.
PopIndex_First(history) == 1

\* history.pop() takes the record at the end.
PopIndex(history) == Len(history)

\* GsDiffUndo.run
GsDiffUndo(st) ==
    LET history == st.settings.history
        i == PopIndex(history)
        record == history[i]
        popped == SubSeq(history, 1, i - 1)
                      \o SubSeq(history, i + 1, Len(history))
        args == ToggleReverse(record.args)
        stdin == record.patch
        git == git_apply(st.repo, args, stdin)
        s1 == [st EXCEPT !.apply = Some([args |-> args, stdin |-> stdin,
                                         ok |-> git.ok])]
        s2 == [s1 EXCEPT !.repo = git.repo,
                         !.settings.history = popped,
                         !.settings.just_hunked = stdin]
        s3 == GsDiffRefreshCommand(s2, TRUE)
    IN  IF history = <<>> THEN UndoStackEmpty(st)
        ELSE IF ~git.ok THEN [s1 EXCEPT !.raised = TRUE]
        ELSE IF s3.raised THEN s3
        ELSE IF s3.settings.in_cached_mode = record.in_cached_mode
        THEN [s3 EXCEPT !.view = set_and_show_cursor(@, record.pts)]
        ELSE s3

(***************************************************************************)
(* The state after GsDiffCommand.run has made the view, and the steps.     *)
(* The commands are run by the user's keys on the UI thread, one at a      *)
(* time; the focus listener and the refreshes it starts run on the worker  *)
(* thread; a draw handed to the UI thread is run there between two         *)
(* commands.  Showing the new view activates it, so a first refresh is     *)
(* queued on the worker.                                                   *)
(*                                                                         *)
(* SpecCommands runs every command, with no refresh but the first and the  *)
(* commands' own; SpecRefresh runs the commands that change the repository *)
(* or the mode, together with the refreshes of the focus listener.         *)
(***************************************************************************)
DefaultContextLines == 3

MaxContextLines == 3

MaxHistory == 2

MaxPending == 1

ZoomAmounts == {0 - 2, 2}

GitDiffOutcomes == {"ok", "UnicodeDecodeError", "GitSavvyError"}

InitSettings ==
    [in_cached_mode |-> FALSE,
     ignore_whitespace |-> FALSE,
     show_word_diff |-> 0,
     context_lines |-> DefaultContextLines,
     base_commit |-> <<>>,
     target_commit |-> <<>>,
     history |-> <<>>,
     just_hunked |-> NoPatch,
     disable_diff |-> FALSE,
     raw_diff |-> {},
     last_cursors |-> NoCursors]

ViewInit ==
    /\ dv_settings = InitSettings
    /\ dv_view = [text |-> None, sel |-> 0]
    /\ dv_repo \in [HunkIds -> {"worktree", "index", "clean"}]
    /\ dv_git_diff \in GitDiffOutcomes
    /\ dv_worker = <<"run_impl">>
    /\ dv_ui = <<>>
    /\ dv_last = Effects(Start("gs_diff", "ui", NoArg))
    /\ wd_idle
    /\ hk_idle
    /\ fz_idle

\* The user moves the cursor into a hunk shown, or out of every hunk.
MoveCursor ==
    /\ \E pos \in Shown(dv_view) \cup {0} :
          /\ pos # dv_view.sel
          /\ Finish([Start("move_cursor", "ui", NoArg)
                        EXCEPT !.view.sel = pos])

ToggleSetting ==
    /\ Finish(GsDiffToggleSetting(
                  Start("gs_diff_toggle_setting", "ui", "ignore_whitespace")))

CycleWordDiff ==
    /\ Finish(GsDiffCycleWordDiff(
                  Start("gs_diff_cycle_word_diff", "ui", NoArg)))

ToggleCachedMode ==
    /\ Finish(GsDiffToggleCachedMode(
                  Start("gs_diff_toggle_cached_mode", "ui", NoArg)))

Zoom ==
    \E amount \in ZoomAmounts :
        /\ dv_settings.context_lines + amount <= MaxContextLines
        /\ Finish(GsDiffZoom(Start("gs_diff_zoom", "ui", ToString(amount)),
                             amount))

StageOrResetHunk ==
    \E reset \in BOOLEAN :
        /\ Len(dv_settings.history) < MaxHistory
        /\ Finish(GsDiffStageOrResetHunkCommand(
                      Start("gs_diff_stage_or_reset_hunk", "ui",
                            IF reset THEN "reset" ELSE "stage"),
                      reset))

Undo ==
    /\ Finish(GsDiffUndo(Start("gs_diff_undo", "ui", NoArg)))

OpenFileAtHunk ==
    \E mapped \in BOOLEAN :
        /\ Finish(GsDiffOpenFileAtHunkCommand(
                      Start("gs_diff_open_file_at_hunk", "ui", NoArg), mapped))

\* GsDiffFocusEventListener.on_activated_async
OnActivatedAsync ==
    /\ Len(dv_worker) + Len(dv_ui) < MaxPending
    /\ Finish(GsDiffRefreshCommand(
                  Start("on_activated_async", "worker", NoArg), FALSE))

\* The worker thread runs the run_impl queued first.
WorkerRunImpl ==
    /\ dv_worker # <<>>
    /\ Finish(run_impl([Start("run_impl", "worker", NoArg)
                           EXCEPT !.worker = Tail(@)],
                       FALSE))

\* The UI thread runs the draw queued first.
UiDraw ==
    /\ dv_ui # <<>>
    /\ LET draw == Head(dv_ui)
       IN  Finish([Start("draw", "ui", NoArg) EXCEPT
                      !.ui = Tail(@),
                      !.view = _draw(@, draw.text, draw.navigate),
                      !.drew = TRUE])

\* Every command of the view, after the first refresh.
CommandsNext ==
    \/ MoveCursor
    \/ ToggleSetting
    \/ CycleWordDiff
    \/ ToggleCachedMode
    \/ Zoom
    \/ StageOrResetHunk
    \/ Undo
    \/ OpenFileAtHunk
    \/ WorkerRunImpl
    \/ UiDraw

SpecCommands == ViewInit /\ [][CommandsNext]_vars

\* The commands that apply patches or switch the mode, and the refreshes
\* the focus listener starts on the worker at any moment.
RefreshNext ==
    \/ MoveCursor
    \/ ToggleCachedMode
    \/ StageOrResetHunk
    \/ Undo
    \/ OnActivatedAsync
    \/ WorkerRunImpl
    \/ UiDraw

SpecRefresh == ViewInit /\ [][RefreshNext]_vars

\* The commits gs_diff can be given: none, a revision, or two revisions
\* with "..." between them as the base; none or a revision as the target.
BaseCommits == {<<>>, <<"a">>, <<"a", "...", "b">>}

TargetCommits == {<<>>, <<"c">>}

\* The view gs_diff has made for a base and a target commit.
CommitsInit ==
    /\ \E base_commit \in BaseCommits, target_commit \in TargetCommits :
           dv_settings = [InitSettings EXCEPT
                             !.base_commit = base_commit,
                             !.target_commit = target_commit]
    /\ dv_view = [text |-> None, sel |-> 0]
    /\ dv_repo \in [HunkIds -> {"worktree", "index", "clean"}]
    /\ dv_git_diff \in GitDiffOutcomes
    /\ dv_worker = <<"run_impl">>
    /\ dv_ui = <<>>
    /\ dv_last = Effects(Start("gs_diff", "ui", NoArg))
    /\ wd_idle
    /\ hk_idle
    /\ fz_idle

\* Hunks are staged and reset in the views of the worktree and the index;
\* for a view of commits gs_diff takes disable_stage.
StageOrResetHunkOfWorktree ==
    /\ dv_settings.base_commit = <<>>
    /\ dv_settings.target_commit = <<>>
    /\ StageOrResetHunk

\* The commands that switch the mode or flip the commits of a view made for
\* any base and target, with the cursor anywhere and hunks staged before.
CommitsNext ==
    \/ MoveCursor
    \/ ToggleCachedMode
    \/ StageOrResetHunkOfWorktree
    \/ WorkerRunImpl
    \/ UiDraw

SpecCommits == CommitsInit /\ [][CommitsNext]_vars

(***************************************************************************)
(* Claims about postprocess_word_diff                                      *)
(***************************************************************************)

IsAddedMarker(m) == m.group[1] = "{"

MarkerInner(m) == SubSeq(m.group, 3, Len(m.group) - 2)

\* The text holds a marker: an opening delimiter, later on the same line
\* (not overlapping it) the closing delimiter of the same kind.
HasMarker(text) ==
    \E i, j \in 1..Len(text) :
        /\ j >= i + 2
        /\ j + 1 <= Len(text)
        /\ \/ /\ text[i] = "{" /\ text[i + 1] = "+"
              /\ text[j] = "+" /\ text[j + 1] = "}"
           \/ /\ text[i] = "[" /\ text[i + 1] = "-"
              /\ text[j] = "-" /\ text[j + 1] = "]"
        /\ \A k \in (i + 2)..(j - 1) : text[k] # "\n"

\* The general part of C1: the k-th marker (0-based, both kinds counted
\* together) that starts at input offset s is recorded as the region
\* [base + s - 4k, base + s - 4k + len(inner)); the returned text sliced at
\* that region (less the base) is the marker's inner text; `{+..+}` markers
\* are recorded in the added list and `[-..-]` markers in the removed list,
\* each list in the order of the markers.
MarkersRecorded ==
    LET ms == WORD_DIFF_MARKERS_RE(wd_text)
        NAdded(k) == Cardinality({i \in 1..k : IsAddedMarker(ms[i])})
        Recorded(k) == IF IsAddedMarker(ms[k])
                       THEN wd_out.added[NAdded(k)]
                       ELSE wd_out.removed[k - NAdded(k)]
    IN  /\ Len(wd_out.added) = NAdded(Len(ms))
        /\ Len(wd_out.removed) = Len(ms) - NAdded(Len(ms))
        /\ \A k \in 1..Len(ms) :
              LET start == wd_offset + ms[k].start - 4 * (k - 1)
                  end == start + Len(MarkerInner(ms[k]))
              IN  /\ Recorded(k) = [a |-> start, b |-> end]
                  /\ Slice(wd_out.text, start - wd_offset, end - wd_offset)
                        = MarkerInner(ms[k])

\* C1 as claimed: the general part, and "{+a+}bc[-d-]e" at base 0 gives the
\* text "abce", added [0,1), removed [3,4).
C1_AsClaimed ==
    wd_runs >= 1 =>
        /\ MarkersRecorded
        /\ (wd_text = WordDiffExample /\ wd_offset = 0) =>
              wd_out = [text |-> <<"a", "b", "c", "e">>,
                        added |-> <<[a |-> 0, b |-> 1]>>,
                        removed |-> <<[a |-> 3, b |-> 4]>>]

\* C1 amended: the general part, and "{+a+}bc[-d-]e" at base 0 gives the
\* text "abcde" (the inner text of a removed marker stays in the text),
\* added [0,1), removed [3,4).
C1_OffsetCorrection ==
    wd_runs >= 1 =>
        /\ MarkersRecorded
        /\ (wd_text = WordDiffExample /\ wd_offset = 0) =>
              wd_out = [text |-> <<"a", "b", "c", "d", "e">>,
                        added |-> <<[a |-> 0, b |-> 1]>>,
                        removed |-> <<[a |-> 3, b |-> 4]>>]

\* C1's case: the example text, at a base offset that is not 0.
C1_Witness ==
    /\ wd_runs = 1
    /\ wd_text = WordDiffExample
    /\ wd_offset = 3
    /\ wd_out.added = <<[a |-> 3, b |-> 4]>>
    /\ wd_out.removed = <<[a |-> 6, b |-> 7]>>

\* C2: applied to a text that holds no marker, postprocess_word_diff
\* returns the text unchanged with two empty region lists, whatever the base
\* offset; so it is with the marker-free text a first application returned.
C2_NoMarkerUnchanged ==
    (wd_runs >= 1 /\ ~HasMarker(wd_text)) =>
        wd_out = [text |-> wd_text, added |-> <<>>, removed |-> <<>>]

\* C2's case: the second application, to a marker-free text of several
\* lines that holds delimiter characters.
C2_Witness ==
    /\ wd_runs = 2
    /\ wd_offset = 3
    /\ ~HasMarker(wd_text)
    /\ \E i, j, k \in 1..Len(wd_text) :
          wd_text[i] = "\n" /\ wd_text[j] = "{" /\ wd_text[k] = "}"
    /\ wd_out.text = wd_text

RegionsOrdered(rs) ==
    \A i, j \in 1..Len(rs) :
        i < j => (rs[i].a <= rs[j].a /\ rs[i].b <= rs[j].a)

\* C3: each returned region list is in left-to-right document order (the
\* starts never decrease and a region begins no earlier than the one before
\* it ends), and the regions of the two lists together do not overlap.
C3_RegionsInDocumentOrder ==
    wd_runs >= 1 =>
        LET all == wd_out.added \o wd_out.removed
        IN  /\ RegionsOrdered(wd_out.added)
            /\ RegionsOrdered(wd_out.removed)
            /\ \A i, j \in 1..Len(all) :
                  i # j => (all[i].b <= all[j].a \/ all[j].b <= all[i].a)

\* C3's case: two added regions that are not empty, apart from each other.
C3_Witness ==
    /\ wd_runs = 1
    /\ Len(wd_out.added) >= 2
    /\ wd_out.added[1].a < wd_out.added[1].b
    /\ wd_out.added[1].b < wd_out.added[2].a
    /\ wd_out.added[2].a < wd_out.added[2].b

(***************************************************************************)
(* Claims about counted_lines and real_rowcol_in_hunk                      *)
(***************************************************************************)

\* The b-side number of line i of a hunk that starts at line start: start
\* plus the number of lines before i that are no deletions.
BNumber(hunk, i) ==
    hunk.from_line_start.val
        + Cardinality({j \in 1..(i - 1) : hunk.lines[j].mode # "-"})

\* The first line after row r that is no deletion, 0 if there is none.
NextPresent(hunk, r) ==
    LET K == {k \in (r + 1)..Len(hunk.lines) : hunk.lines[k].mode # "-"}
    IN  IF K = {} THEN 0 ELSE Min(K)

OnDeletion ==
    /\ hk_pc = "jumped"
    /\ hk_hunk.from_line_start # None
    /\ hk_cursor.val[1] >= 1
    /\ hk_hunk.lines[hk_cursor.val[1]].mode = "-"

\* C4: in the list counted_lines gives for a hunk with start line S, the b
\* of the first line is S, the b never decreases, the b of line i+1 is the
\* b of line i plus 1 exactly when line i is no deletion and equal to it
\* otherwise; every line of the hunk, deletions too, is in the list with a b.
C4_BNumbers ==
    (hk_pc = "counted" /\ hk_hunk.from_line_start # None) =>
        LET S == hk_hunk.from_line_start.val
            lines == hk_hunk.lines
            counted == hk_counted.val
        IN  /\ hk_counted.some
            /\ Len(counted) = Len(lines)
            /\ \A i \in 1..Len(lines) : counted[i].line = lines[i]
            /\ Len(lines) >= 1 => counted[1].b = S
            /\ \A i \in 1..(Len(lines) - 1) :
                  /\ counted[i + 1].b >= counted[i].b
                  /\ (counted[i + 1].b = counted[i].b + 1)
                        <=> (lines[i].mode # "-")
                  /\ (lines[i].mode = "-") =>
                        (counted[i + 1].b = counted[i].b)

\* C4's case: a context line, a deletion and an addition, from line 3 on.
C4_Witness ==
    /\ hk_pc = "counted"
    /\ hk_hunk.from_line_start = Some(3)
    /\ Len(hk_hunk.lines) = 3
    /\ hk_hunk.lines[1].mode = " "
    /\ hk_hunk.lines[2].mode = "-"
    /\ hk_hunk.lines[3].mode = "+"
    /\ hk_counted.val[1].b = 3
    /\ hk_counted.val[2].b = 4
    /\ hk_counted.val[3].b = 4

\* C5: for a hunk of n context lines that starts at line S, a cursor on
\* the relative row r in 1..n maps to the b-side number counted from the
\* start of the hunk, S + r - 1, and the column is returned as given.
C5_ContextOnly ==
    (/\ hk_pc = "jumped"
     /\ hk_hunk.from_line_start # None
     /\ \A i \in 1..Len(hk_hunk.lines) : hk_hunk.lines[i].mode = " "
     /\ hk_cursor.val[1] >= 1) =>
        LET r == hk_cursor.val[1]
        IN  /\ hk_result = Some(<<BNumber(hk_hunk, r), hk_cursor.val[2]>>)
            /\ hk_result.val[1] = hk_hunk.from_line_start.val + r - 1

\* C5's case: the last of three context lines.
C5_Witness ==
    /\ hk_pc = "jumped"
    /\ hk_hunk.from_line_start = Some(3)
    /\ Len(hk_hunk.lines) = 3
    /\ \A i \in 1..3 : hk_hunk.lines[i].mode = " "
    /\ hk_cursor = Some(<<3, 2>>)
    /\ hk_result = Some(<<5, 2>>)

\* C6 as claimed: for the hunk ["-foo", "+bar"] that starts at line 10, a
\* cursor on row 1, at whatever column, maps to row 10 and column 4.
C6_AsClaimed ==
    (hk_pc = "jumped" /\ hk_hunk = FooBarHunk /\ hk_cursor.val[1] = 1) =>
        hk_result = Some(<<10, 4>>)

\* C6 amended: for that hunk a cursor on row 1 at column c (1 if c is 0)
\* maps to row 10 and column min(c, 4); in general a cursor on a deletion
\* whose next line that is no deletion is an addition maps to the b-side
\* number of that addition, and to the column min(c, len(addition) + 1).
C6_DeletionThenAddition ==
    /\ (hk_pc = "jumped" /\ hk_hunk = FooBarHunk /\ hk_cursor.val[1] = 1) =>
          hk_result = Some(<<10, Min2(hk_cursor.val[2], 4)>>)
    /\ OnDeletion =>
          LET k == NextPresent(hk_hunk, hk_cursor.val[1])
          IN  (k # 0 /\ hk_hunk.lines[k].mode = "+") =>
                  hk_result =
                      Some(<<BNumber(hk_hunk, k),
                             Min2(hk_cursor.val[2],
                                  Len(hk_hunk.lines[k].content) + 1)>>)

\* C6's case: the cursor on "-foo" at column 2.
C6_Witness ==
    /\ hk_pc = "jumped"
    /\ hk_hunk = FooBarHunk
    /\ hk_cursor = Some(<<1, 2>>)
    /\ hk_result = Some(<<10, 2>>)

\* The row a cursor on the header line stands for, as C7 states it.
RetargetRow(hunk) ==
    LET T == {i \in 1..Len(hunk.lines) :
                 /\ hunk.lines[i].mode # "-"
                 /\ \E j \in 1..Len(hunk.lines[i].content) :
                       hunk.lines[i].content[j] # " "}
    IN  IF T = {} THEN 1 ELSE Min(T)

OnHeader ==
    /\ hk_pc = "jumped"
    /\ hk_cursor.val[1] = 0
    /\ hk_result # None

\* The example of C7: the first line a deletion, the second blank, the
\* third no deletion and not blank: the b-side number of the third line,
\* column 1.
HeaderExample ==
    (/\ OnHeader
     /\ Len(hk_hunk.lines) >= 3
     /\ hk_hunk.lines[1].mode = "-"
     /\ ~HasContent(hk_hunk.lines[2].content)
     /\ hk_hunk.lines[3].mode # "-"
     /\ HasContent(hk_hunk.lines[3].content)) =>
        hk_result = Some(<<BNumber(hk_hunk, 3), 1>>)

\* C7 as claimed: a cursor on the header line maps to what the first line
\* that is no deletion and is not blank (row 1 if there is none) maps to,
\* and the column returned is always 1.
C7_AsClaimed ==
    OnHeader =>
        /\ hk_result.val[1] =
              real_rowcol_in_hunk(hk_hunk, <<RetargetRow(hk_hunk), 1>>).val[1]
        /\ hk_result.val[2] = 1
        /\ HeaderExample

\* C7 amended: a cursor on the header line, at whatever column, maps to
\* what a cursor at column 1 of the first line that is no deletion and is
\* not blank (row 1 if there is none) maps to; the result is the b-side
\* number of that line and column 1 whenever that line is no deletion.
C7_HeaderLineCursor ==
    OnHeader =>
        LET t == RetargetRow(hk_hunk)
        IN  /\ hk_result = real_rowcol_in_hunk(hk_hunk, <<t, 1>>)
            /\ hk_hunk.lines[t].mode # "-" =>
                  hk_result = Some(<<BNumber(hk_hunk, t), 1>>)
            /\ HeaderExample

\* C7's case: the example, with the cursor on the header at column 2.
C7_Witness ==
    /\ OnHeader
    /\ hk_cursor = Some(<<0, 2>>)
    /\ hk_hunk.from_line_start = Some(3)
    /\ Len(hk_hunk.lines) = 3
    /\ hk_hunk.lines[1].mode = "-"
    /\ hk_hunk.lines[2] = [mode |-> " ", content |-> <<>>]
    /\ hk_hunk.lines[3] = [mode |-> "+", content |-> <<"x">>]
    /\ hk_result = Some(<<4, 1>>)

\* C8: a cursor on a deletion skips the deletions that follow and decides
\* on the first line after them: a context line with the indentation of the
\* deleted line gives that line's b-side number and the column indentation
\* + 1; a context line with another indentation gives row max(1, b - 1),
\* column 1, b being the b-side number at the deletion; if no line that is
\* no deletion follows, the result is b, column 1.
C8_DeletionFallback ==
    OnDeletion =>
        LET r == hk_cursor.val[1]
            k == NextPresent(hk_hunk, r)
            b == BNumber(hk_hunk, r)
            Indent(i) == line_indentation(hk_hunk.lines[i].content)
        IN  /\ k = 0 => hk_result = Some(<<b, 1>>)
            /\ (k # 0 /\ hk_hunk.lines[k].mode = " " /\ Indent(k) = Indent(r))
                  => hk_result = Some(<<BNumber(hk_hunk, k), Indent(k) + 1>>)
            /\ (k # 0 /\ hk_hunk.lines[k].mode = " " /\ Indent(k) # Indent(r))
                  => hk_result = Some(<<Max2(1, b - 1), 1>>)

\* C8's case: two deletions, then a context line with another indentation,
\* in a hunk that starts at line 1.
C8_Witness ==
    /\ OnDeletion
    /\ hk_hunk.from_line_start = Some(1)
    /\ hk_cursor.val[1] = 1
    /\ Len(hk_hunk.lines) = 3
    /\ hk_hunk.lines[2].mode = "-"
    /\ hk_hunk.lines[3] = [mode |-> " ", content |-> <<" ", "x">>]
    /\ hk_hunk.lines[1].content = <<"x">>
    /\ hk_result = Some(<<1, 1>>)

\* C9: real_rowcol_in_hunk returns None exactly when the header gives no
\* start line or the hunk has no lines; for every other hunk and every
\* relative row from 0 to the number of lines it returns a (row, column)
\* with row >= 1 and column >= 1.
C9_AlwaysALocation ==
    hk_pc = "jumped" =>
        /\ (hk_result = None)
              <=> (hk_hunk.from_line_start = None \/ hk_hunk.lines = <<>>)
        /\ hk_result # None =>
              (hk_result.val[1] >= 1 /\ hk_result.val[2] >= 1)

(***************************************************************************)
(* Claims about fuzzy_search_hunk_content_in_view                          *)
(***************************************************************************)

\* The lines, joined, occur somewhere in the text of the buffer.
Occurs(buffer, lines) ==
    LET text == Join(buffer)
        pattern == Join(lines)
    IN  \E i \in 1..Len(text) :
            /\ i + Len(pattern) - 1 <= Len(text)
            /\ SubSeq(text, i, i + Len(pattern) - 1) = pattern

\* C10: the candidates searched are lines[k : n-k] for k = 0, 1, 2, ... in
\* that order, each of them non-empty, so at most ceil(n/2) of them and
\* none for an empty list; no candidate searched before the last occurs in
\* the buffer, and the search goes on to the next candidate unless the one
\* searched occurs in the buffer; for [a, b, c, d, e] not in the buffer
\* while [b, c, d] is, the match is found on the second candidate.
C10_CandidatesInOrder ==
    fz_pc = "done" =>
        LET n == Len(fz_lines)
            searches == fz_result.searches
            m == Len(searches)
        IN  /\ \A i \in 1..m :
                  /\ searches[i] = SubSeq(fz_lines, i, n - i + 1)
                  /\ searches[i] # <<>>
            /\ m <= (n + 1) \div 2
            /\ n = 0 => m = 0
            /\ \A i \in 1..(m - 1) : ~Occurs(fz_buffer, searches[i])
            /\ m < (n + 1) \div 2 => Occurs(fz_buffer, searches[m])
            /\ RegionTruthy(fz_result.found)
                  <=> (m >= 1 /\ Occurs(fz_buffer, searches[m]))
            /\ (/\ fz_lines = FiveLines
                /\ ~Occurs(fz_buffer, FiveLines)
                /\ Occurs(fz_buffer, SubSeq(FiveLines, 2, 4)))
                  => (m = 2 /\ RegionTruthy(fz_result.found))

\* C10's case: [a, b, c, d, e] is not in the buffer, [b, c, d] is found
\* after one shrink.
C10_Witness ==
    /\ fz_pc = "done"
    /\ fz_lines = FiveLines
    /\ Len(fz_result.searches) = 2
    /\ fz_result.searches[2] = << <<"b">>, <<"c">>, <<"d">> >>
    /\ fz_result.found = [a |-> 4, b |-> 9]

\* The header lines of the buffer that begin at or before pt.
HeadersUpTo(buffer, pt) ==
    {j \in 1..Len(buffer) : IsHeader(buffer[j]) /\ LineStart(buffer, j) <= pt}

\* C11: when a candidate is found, the region reported is the region of the
\* header line (`@@ ...`) of the hunk that holds the start of the match in
\* the buffer as parsed at that moment, never the region of the match; when
\* the start of the match lies in no hunk, the result is none and the
\* candidate found is the last one searched.
C11_HeaderRegionOfFoundHunk ==
    LET searches == fz_result.searches
        m == Len(searches)
        hits == {i \in 1..m : Occurs(fz_buffer, searches[i])}
        found == fz_result.found
        J == HeadersUpTo(fz_buffer, found.a)
        last == CHOOSE j \in J : \A k \in J : k <= j
    IN  (fz_pc = "done" /\ hits # {}) =>
            /\ hits = {m}
            /\ RegionTruthy(found)
            /\ Slice(Join(fz_buffer), found.a, found.b) = Join(searches[m])
            /\ IF J # {} /\ IsHunkHeader(fz_buffer[last])
               THEN /\ fz_result.region.some
                    /\ fz_result.region.val.a = LineStart(fz_buffer, last)
                    /\ fz_result.region.val.b
                          = LineStart(fz_buffer, last) + Len(fz_buffer[last])
                    /\ fz_result.region.val.b <= found.a
                    /\ fz_result.region.val # found
               ELSE fz_result.region = None

\* C11's case: [b, c, d] is found below the header line that begins at
\* offset 2, and the region of that header line is reported.
C11_Witness ==
    /\ fz_pc = "done"
    /\ fz_lines = FiveLines
    /\ fz_result.found = [a |-> 4, b |-> 9]
    /\ fz_result.region = Some([a |-> 2, b |-> 3])

\* C11's other case: a smaller candidate is left, but the match found lies
\* in no hunk and the result is none.
C11_WitnessNone ==
    /\ fz_pc = "done"
    /\ fz_lines = FiveLines
    /\ fz_result.found = [a |-> 0, b |-> 5]
    /\ Len(fz_result.searches) = 2
    /\ fz_result.region = None

(***************************************************************************)
(* Claims about the commands of the diff view                              *)
(***************************************************************************)

\* The handler that ran last is the stage-or-reset command.
LastStageOrReset == dv_last.cmd = "gs_diff_stage_or_reset_hunk"

\* C12: the arguments of the git apply that apply_patch runs are "apply",
\* then -R present iff (reset or in_cached_mode), --cached present iff
\* (in_cached_mode or not reset), --unidiff-zero present iff context_lines
\* is 0, then "-": staging in non-cached mode is a forward apply to the
\* index only, resetting in non-cached mode a reverse apply without
\* --cached, unstaging in cached mode a reverse apply to the index only.
C12_ApplyArguments ==
    (LastStageOrReset /\ dv_last.apply.some) =>
        LET args == dv_last.apply.val.args
            reset == dv_last.arg = "reset"
            in_cached_mode == dv_settings.in_cached_mode
            context_lines == dv_settings.context_lines
            flags == {args[i] : i \in 2..4} \ {NoArg}
        IN  /\ Len(args) = 5
            /\ args[1] = "apply"
            /\ args[5] = "-"
            /\ args[2] \in {"-R", NoArg}
            /\ args[3] \in {"--cached", NoArg}
            /\ args[4] \in {"--unidiff-zero", NoArg}
            /\ "-R" \in flags <=> (reset \/ in_cached_mode)
            /\ "--cached" \in flags <=> (in_cached_mode \/ ~reset)
            /\ "--unidiff-zero" \in flags <=> context_lines = 0
            /\ (~reset /\ ~in_cached_mode)
                  => flags \ {"--unidiff-zero"} = {"--cached"}
            /\ (reset /\ ~in_cached_mode)
                  => flags \ {"--unidiff-zero"} = {"-R"}
            /\ (~reset /\ in_cached_mode)
                  => flags \ {"--unidiff-zero"} = {"-R", "--cached"}

\* C12's case: a hunk was reset in non-cached mode with no context lines.
C12_Witness ==
    /\ LastStageOrReset
    /\ dv_last.arg = "reset"
    /\ ~dv_settings.in_cached_mode
    /\ dv_settings.context_lines = 0
    /\ dv_last.apply = Some([args |-> <<"apply", "-R", NoArg,
                                        "--unidiff-zero", "-">>,
                             stdin |-> 1, ok |-> TRUE])
    /\ dv_repo[1] = "clean"

\* C13: in cached mode the stage-or-reset command run with reset=True takes
\* no action: it runs no git apply, the history is not extended and the
\* repository stays as it is.
C13_NoResetInCachedMode ==
    [][(/\ dv_last'.cmd = "gs_diff_stage_or_reset_hunk"
        /\ dv_last'.arg = "reset"
        /\ dv_settings.in_cached_mode)
          => (/\ dv_last'.apply = None
              /\ dv_settings'.history = dv_settings.history
              /\ dv_repo' = dv_repo)]_vars


\* The handler that ran last is the undo command.
LastUndo == dv_last.cmd = "gs_diff_undo"

\* The arguments are those of `recorded` with the reverse flag flipped.
ReverseFlipped(args, recorded) ==
    /\ Len(args) = Len(recorded)
    /\ \A i \in 1..Len(args) : i # 2 => args[i] = recorded[i]
    /\ (args[2] = "-R" /\ recorded[2] = NoArg)
          \/ (args[2] = NoArg /\ recorded[2] = "-R")

C15_UndoOnEmptyHistory ==
    [][(LastUndo' /\ dv_settings.history = <<>>)
          => /\ dv_last'.message = StatusMessage("Undo stack is empty")
             /\ dv_last'.apply = None
             /\ dv_last'.diff = "none"
             /\ ~dv_last'.drew
             /\ ~dv_last'.raised
             /\ ~dv_last'.opened
             /\ UNCHANGED <<dv_settings, dv_view, dv_repo, dv_worker, dv_ui>>
      ]_vars

\* C15's case: the undo stack was reported empty in a view whose text
\* lists a hunk with the cursor in it, after a hunk had been hunked.
C15_Witness ==
    /\ LastUndo
    /\ dv_last.message = StatusMessage("Undo stack is empty")
    /\ dv_settings.history = <<>>
    /\ dv_settings.just_hunked # NoPatch
    /\ dv_view.sel \in Shown(dv_view)

\* C16: the stage-or-reset command is refused unless the diff is clean:
\* whenever ignore_whitespace is set or show_word_diff is not 0 it shows
\* the error "You have to be in a clean diff to stage.", runs no git
\* apply, appends nothing to the history, leaves just_hunked as it is and
\* starts no refresh.
C16_RefusedUnlessClean ==
    [][(/\ LastStageOrReset'
        /\ dv_settings.ignore_whitespace \/ dv_settings.show_word_diff # 0)
          => /\ dv_last'.message =
                    [kind |-> "error",
                     text |-> "You have to be in a clean diff to stage."]
             /\ dv_last'.apply = None
             /\ dv_last'.diff = "none"
             /\ ~dv_last'.drew
             /\ ~dv_last'.raised
             /\ dv_settings'.history = dv_settings.history
             /\ dv_settings'.just_hunked = dv_settings.just_hunked
             /\ UNCHANGED <<dv_settings, dv_view, dv_repo, dv_worker, dv_ui>>
      ]_vars

\* C16's case: staging was refused in a word diff, with white space not
\* ignored and the cursor in a hunk.
C16_Witness ==
    /\ LastStageOrReset
    /\ dv_last.arg = "stage"
    /\ dv_last.message.kind = "error"
    /\ dv_settings.show_word_diff = 2
    /\ ~dv_settings.ignore_whitespace
    /\ dv_view.sel \in Shown(dv_view)
    /\ dv_repo[dv_view.sel] = "worktree"


\* The handler that ran last is the open-file-at-hunk command.
LastOpenFileAtHunk == dv_last.cmd = "gs_diff_open_file_at_hunk"

\* The handler that ran last did nothing but show a message.
OnlyAMessage ==
    /\ dv_last'.apply = None
    /\ dv_last'.diff = "none"
    /\ ~dv_last'.drew
    /\ ~dv_last'.opened
    /\ ~dv_last'.raised
    /\ UNCHANGED <<dv_settings, dv_view, dv_repo, dv_worker, dv_ui>>

\* "Not within a hunk", shown in the status bar by window.status_message
\* or by util.view.flash.
NotWithinAHunk(message) ==
    /\ message.text = "Not within a hunk"
    /\ message.kind \in {"status", "flash"}

\* C17 as claimed: when the cursor lies in no hunk, the stage-or-reset
\* command and the open-file-at-hunk command show "Not within a hunk" as a
\* status message and do nothing else: no git apply, history and
\* just_hunked unchanged, no file opened, no exception.
C17_AsClaimed ==
    [][((LastStageOrReset' \/ LastOpenFileAtHunk') /\ dv_view.sel = 0)
          => (NotWithinAHunk(dv_last'.message) /\ OnlyAMessage)]_vars

\* C17: when the cursor lies in no hunk, the open-file-at-hunk command,
\* and the stage-or-reset command in a clean diff, show "Not within a
\* hunk" as a status message and do nothing else: no git apply, history
\* and just_hunked unchanged, no file opened, no exception; in a diff that
\* is not clean the stage-or-reset command shows the clean-diff error
\* instead, and does nothing else either.
C17_NotWithinAHunk ==
    [][LET clean == /\ ~dv_settings.ignore_whitespace
                    /\ dv_settings.show_word_diff = 0
       IN  /\ (LastStageOrReset' /\ dv_view.sel = 0 /\ clean)
                 => /\ dv_last'.message = StatusMessage("Not within a hunk")
                    /\ OnlyAMessage
           /\ (LastStageOrReset' /\ dv_view.sel = 0 /\ ~clean)
                 => /\ dv_last'.message.kind = "error"
                    /\ dv_last'.message.text # "Not within a hunk"
                    /\ OnlyAMessage
           /\ (LastOpenFileAtHunk' /\ dv_view.sel = 0)
                 => /\ NotWithinAHunk(dv_last'.message)
                    /\ OnlyAMessage]_vars

\* C17's case: the text lists a hunk, the cursor lies outside of it, and
\* staging reported "Not within a hunk".
C17_Witness ==
    /\ LastStageOrReset
    /\ dv_last.message = StatusMessage("Not within a hunk")
    /\ dv_view.sel = 0
    /\ Shown(dv_view) # {}
    /\ dv_settings.history = <<>>


(***************************************************************************)
(* Claims about the refreshes of the diff view                             *)
(***************************************************************************)

\* No refresh is queued on the worker and no draw on the UI thread.
NothingPending == dv_worker = <<>> /\ dv_ui = <<>>

\* The text of the view is the diff of the repository as it is, staged or
\* unstaged as the text says.
ViewInSync ==
    /\ dv_view.text.some
    /\ dv_view.text.val =
           git_diff(dv_repo,
                    [dv_settings EXCEPT
                        !.in_cached_mode = dv_view.text.val.in_cached_mode])

\* C18: the view and the repository stay in sync.  Stage, reset and undo
\* apply the patch and redraw in one blocking step, and under every
\* interleaving with the refreshes the focus listener starts on the
\* worker, once every pending refresh has drawn, the text of the view is
\* the diff of the repository as the latest applied patch left it; no draw
\* computed from an earlier state of the repository replaces one computed
\* from a later state.
C18_ViewAndRepoInSync ==
    (dv_git_diff = "ok" /\ NothingPending) => ViewInSync

\* The second half of C18 on its own: a draw never replaces the diff of the
\* repository as it is by an older one.
C18_NoStaleDraw ==
    [][(dv_last'.drew /\ ViewInSync /\ dv_repo' = dv_repo)
          => ViewInSync']_vars


\* C19: drawing always happens on the UI thread.  Only a step of the UI
\* thread draws or changes the view; a refresh with sync=True, which the
\* commands of the view run, computes the diff and draws it in the same step
\* and queues nothing; a refresh with sync=False only queues run_impl on the
\* worker, and run_impl on the worker computes the diff, leaves the view as
\* it is and hands the draw of that diff to the UI queue.
C19_DrawsOnUiThread ==
    [][LET last == dv_last'
       IN  /\ last.drew => last.thread = "ui"
           /\ dv_view' # dv_view => last.thread = "ui"
           /\ (last.thread = "ui" /\ last.diff = "ok") =>
                  /\ last.drew
                  /\ dv_ui' = dv_ui
                  /\ dv_worker' = dv_worker
                  /\ dv_view'.text = Some(git_diff(dv_repo', dv_settings'))
           /\ last.cmd = "on_activated_async" =>
                  /\ last.diff = "none"
                  /\ dv_worker' = Append(dv_worker, "run_impl")
                  /\ dv_ui' = dv_ui
           /\ (last.cmd = "run_impl" /\ last.diff = "ok") =>
                  /\ dv_worker' = Tail(dv_worker)
                  /\ dv_ui' = Append(dv_ui,
                         [text |-> git_diff(dv_repo, dv_settings),
                          navigate |-> dv_settings.raw_diff = {}])
      ]_vars

\* run_impl has run on the worker for a view that shows a diff: it drew
\* nothing, and its draw waits in the UI queue.
C19_Witness ==
    /\ dv_last.cmd = "run_impl"
    /\ dv_last.thread = "worker"
    /\ dv_last.diff = "ok"
    /\ ~dv_last.drew
    /\ dv_view.text.some
    /\ dv_ui # <<>>


\* C20: a refresh whose git diff fails with a UnicodeDecodeError sets
\* git_savvy.disable_diff, raises nothing, draws nothing and queues no draw;
\* once the flag is set it stays set and no step invokes git diff or draws
\* again.  A refresh whose git diff fails with any other GitSavvyError
\* raises it, draws nothing and leaves the flag as it was.
C20_DisableDiffStopsTheLoop ==
    [][LET last == dv_last'
       IN  /\ last.diff = "UnicodeDecodeError" =>
                  /\ dv_settings'.disable_diff
                  /\ ~last.raised
                  /\ ~last.drew
                  /\ dv_ui' = dv_ui
                  /\ dv_view'.text = dv_view.text
           /\ dv_settings.disable_diff =>
                  /\ dv_settings'.disable_diff
                  /\ last.diff = "none"
                  /\ ~last.drew
                  /\ dv_ui' = dv_ui
           /\ last.diff = "GitSavvyError" =>
                  /\ last.raised
                  /\ ~last.drew
                  /\ dv_ui' = dv_ui
                  /\ dv_settings'.disable_diff = dv_settings.disable_diff
                  /\ ~dv_settings'.disable_diff
      ]_vars

\* The flag is set, and a run_impl queued on the worker after that has
\* returned without invoking git diff.
C20_Witness ==
    /\ dv_settings.disable_diff
    /\ dv_git_diff = "UnicodeDecodeError"
    /\ dv_last.cmd = "run_impl"
    /\ dv_last.diff = "none"
    /\ ~dv_last.drew
    /\ ~dv_last.raised


(***************************************************************************)
(* Claims about the settings of the diff view                              *)
(***************************************************************************)

\* The parameters of the diff other than the number of context lines.
OtherParameters(settings) ==
    [in_cached_mode |-> settings.in_cached_mode,
     base_commit |-> settings.base_commit,
     target_commit |-> settings.target_commit,
     show_word_diff |-> settings.show_word_diff,
     ignore_whitespace |-> settings.ignore_whitespace,
     history |-> settings.history]

\* The command of the step has refreshed the view synchronously: it has
\* invoked git diff unless the view has diffs disabled, and has drawn the
\* diff of the repository under the new settings when git diff succeeded.
Refreshed ==
    /\ dv_last'.diff = IF dv_settings.disable_diff THEN "none" ELSE dv_git_diff
    /\ dv_last'.diff = "ok" =>
           /\ dv_last'.drew
           /\ dv_view'.text = Some(git_diff(dv_repo', dv_settings'))

\* C21: context_lines is never negative.  A zoom by `amount` sets it to
\* max(current + amount, 0), refreshes the view, and leaves in_cached_mode,
\* the base and target commits, show_word_diff, ignore_whitespace, the
\* history and the repository as they were.
C21_ZoomKeepsContextLinesNonNegative ==
    [][/\ dv_settings'.context_lines >= 0
       /\ dv_last'.cmd = "gs_diff_zoom" =>
              \E amount \in ZoomAmounts :
                  /\ dv_last'.arg = ToString(amount)
                  /\ dv_settings'.context_lines =
                         Max2(dv_settings.context_lines + amount, 0)
                  /\ OtherParameters(dv_settings') = OtherParameters(dv_settings)
                  /\ dv_repo' = dv_repo
                  /\ Refreshed
      ]_vars

\* The view started with three context lines and zooms by two, so it has an
\* even number of them only after a zoom out that stopped at zero: here it
\* has zoomed out to zero and in again, and has drawn the diff.
C21_Witness ==
    /\ dv_last.cmd = "gs_diff_zoom"
    /\ dv_last.arg = ToString(2)
    /\ dv_settings.context_lines = 2
    /\ dv_last.drew

\* C22: gs_diff_toggle_cached_mode does one of three things.  With a base
\* and a target commit it swaps them; otherwise, with a base commit
\* `a...b`, the base becomes `b...a`; in both cases in_cached_mode and
\* last_cursors stay as they were.  Otherwise it negates in_cached_mode and
\* stores the selection in last_cursors, and the commits stay as they were.
\* In every case the view is refreshed and the history and the repository
\* are unchanged.
C22_ToggleCachedModeChangesOneThing ==
    [][dv_last'.cmd = "gs_diff_toggle_cached_mode" =>
         LET base_commit == dv_settings.base_commit
             target_commit == dv_settings.target_commit
         IN  /\ dv_settings'.history = dv_settings.history
             /\ dv_repo' = dv_repo
             /\ Refreshed
             /\ IF base_commit # <<>> /\ target_commit # <<>>
                THEN /\ dv_settings'.base_commit = target_commit
                     /\ dv_settings'.target_commit = base_commit
                     /\ dv_settings'.in_cached_mode = dv_settings.in_cached_mode
                     /\ dv_settings'.last_cursors = dv_settings.last_cursors
                ELSE IF \E i \in 1..Len(base_commit) : base_commit[i] = "..."
                THEN /\ \E i \in 1..Len(base_commit) :
                            /\ base_commit[i] = "..."
                            /\ dv_settings'.base_commit =
                                   SubSeq(base_commit, i + 1, Len(base_commit))
                                   \o <<"...">>
                                   \o SubSeq(base_commit, 1, i - 1)
                     /\ dv_settings'.base_commit # base_commit
                     /\ dv_settings'.target_commit = target_commit
                     /\ dv_settings'.in_cached_mode = dv_settings.in_cached_mode
                     /\ dv_settings'.last_cursors = dv_settings.last_cursors
                ELSE /\ dv_settings'.in_cached_mode = ~dv_settings.in_cached_mode
                     /\ dv_settings'.last_cursors = Some(dv_view.sel)
                     /\ dv_settings'.base_commit = base_commit
                     /\ dv_settings'.target_commit = target_commit
      ]_vars

\* The base commit `a...b` of a view without a target has been flipped to
\* `b...a`; the view is still not in cached mode, has stored no cursors,
\* and shows the diff for the flipped base.
C22_Witness ==
    /\ dv_last.cmd = "gs_diff_toggle_cached_mode"
    /\ dv_settings.base_commit = <<"b", "...", "a">>
    /\ dv_settings.target_commit = <<>>
    /\ ~dv_settings.in_cached_mode
    /\ dv_settings.last_cursors = NoCursors
    /\ dv_last.drew
    /\ dv_view.text.val.base_commit = <<"b", "...", "a">>

\* The other two cases of C22: the commits of a view with both have been
\* swapped, and a view with a base commit only has switched to cached mode.
C22_WitnessSwapped ==
    /\ dv_last.cmd = "gs_diff_toggle_cached_mode"
    /\ dv_settings.base_commit = <<"c">>
    /\ dv_settings.target_commit = <<"a", "...", "b">>
    /\ ~dv_settings.in_cached_mode

C22_WitnessToggled ==
    /\ dv_last.cmd = "gs_diff_toggle_cached_mode"
    /\ dv_settings.base_commit = <<"a">>
    /\ dv_settings.target_commit = <<>>
    /\ dv_settings.in_cached_mode
    /\ dv_settings.last_cursors.some


\* The modes of show_word_diff: the 0-based indices of WORD_DIFF_PATTERNS.
WordDiffModes == {i - 1 : i \in DOMAIN WORD_DIFF_PATTERNS}

\* C23: show_word_diff stays an index of WORD_DIFF_PATTERNS.  Each
\* gs_diff_cycle_word_diff sets it to (current + 1) mod 3 and refreshes the
\* view, and three of them in a row lead back to the mode they started in.
\* A refresh that gets to git diff has taken its regex from
\* WORD_DIFF_PATTERNS at show_word_diff without an IndexError; in mode 0 that
\* is no regex and the markers are not postprocessed, in the other modes
\* there is a regex and a diff that was computed is postprocessed.
C23_WordDiffModeCycles ==
    [][LET last == dv_last'
           mode == dv_settings.show_word_diff
           mode1 == dv_settings'.show_word_diff
       IN  /\ mode1 \in WordDiffModes
           /\ mode1 \in {0, 1, 2}
           /\ last.cmd = "gs_diff_cycle_word_diff" =>
                  /\ mode1 = (mode + 1) % 3
                  /\ mode1 # mode
                  /\ NextWordDiffMode(NextWordDiffMode(mode1)) = mode
                  /\ Refreshed
           /\ last.diff # "IndexError"
           /\ last.diff # "none" =>
                  /\ last.word_diff_regex = Some(WORD_DIFF_PATTERNS[mode1 + 1])
                  /\ mode1 = 0 <=> last.word_diff_regex = Some(NoArg)
                  /\ last.postprocessed <=> (last.diff = "ok" /\ mode1 # 0)
      ]_vars

\* A gs_diff_cycle_word_diff has led back to mode 0, in which the view
\* started: its refresh had no regex, postprocessed nothing and drew the
\* diff.
C23_Witness ==
    /\ dv_last.cmd = "gs_diff_cycle_word_diff"
    /\ dv_settings.show_word_diff = 0
    /\ dv_last.diff = "ok"
    /\ dv_last.word_diff_regex = Some(NoArg)
    /\ ~dv_last.postprocessed
    /\ dv_last.drew

\* A refresh in mode 2 has given git diff the regex "." and has
\* postprocessed the markers.
C23_WitnessPostprocessed ==
    /\ dv_last.cmd = "gs_diff_cycle_word_diff"
    /\ dv_settings.show_word_diff = 2
    /\ dv_last.word_diff_regex = Some(".")
    /\ dv_last.postprocessed


(***************************************************************************)
(* Claims about find_hunk_in_view                                          *)
(***************************************************************************)

\* The offsets at which the line occurs in the text of the buffer.
OccurrencesOf(buffer, line) ==
    LET text == Join(buffer)
    IN  {i \in 0..(Len(text) - Len(line)) :
            SubSeq(text, i + 1, i + Len(line)) = line}

\* C24: find_hunk_in_view looks for the first hunk of the patch only.  For a
\* patch without a hunk it searches nothing and returns none.  Otherwise,
\* if the text of the hunk's header line occurs in the view, it returns the
\* region of the first occurrence and does not search for the content; if
\* it does not occur, it returns what the fuzzy search for the content
\* lines of that hunk returns.  Lines of the patch after the first hunk
\* make no difference.
C24_HeaderFirstThenContent ==
    fz_pc = "done" =>
        LET H == {i \in 1..Len(fz_lines) : IsHunkHeader(fz_lines[i])}
            first == CHOOSE i \in H : \A j \in H : i <= j
            after == {j \in H : j > first}
            next == CHOOSE j \in after : \A k \in after : j <= k
            upto == IF after = {} THEN fz_lines
                    ELSE SubSeq(fz_lines, 1, next - 1)
            O == OccurrencesOf(fz_buffer, fz_lines[first])
            at == CHOOSE i \in O : \A j \in O : i <= j
        IN  IF H = {}
            THEN /\ fz_result.region = None
                 /\ fz_result.header = None
                 /\ fz_result.fuzzy = None
            ELSE /\ fz_result = find_hunk_in_view(fz_buffer, upto)
                 /\ IF O # {}
                    THEN /\ fz_result.region =
                                Some([a |-> at,
                                      b |-> at + Len(fz_lines[first])])
                         /\ fz_result.fuzzy = None
                    ELSE /\ fz_result.fuzzy.some
                         /\ \A i \in 1..Len(fz_result.fuzzy.val.searches) :
                                /\ first + i <= Len(fz_lines)
                                /\ fz_result.fuzzy.val.searches[i][1]
                                       = fz_lines[first + i]
                                /\ \A l \in 1..Len(fz_result.fuzzy.val.searches[i]) :
                                       ~IsHeader(fz_result.fuzzy.val.searches[i][l])
                         /\ (first < Len(fz_lines)
                                /\ ~IsHeader(fz_lines[first + 1]))
                               => fz_result.fuzzy.val.searches # <<>>
                         /\ fz_result.region = fz_result.fuzzy.val.region

\* The patch has two hunks, with the headers "@" and "@1"; "@" is not a
\* line of the view but occurs in its line "a@", and the region of that
\* occurrence is returned without a search for the content.
C24_Witness ==
    /\ fz_pc = "done"
    /\ fz_lines = << <<"@">>, <<"a">>, <<"@", "1">> >>
    /\ fz_buffer = << <<"a">>, <<"a", "@">> >>
    /\ fz_result.region = Some([a |-> 3, b |-> 4])
    /\ fz_result.fuzzy = None

\* The header "@1" of the patch is not in the view, and the search for the
\* content line "a" leads to the header line of the hunk that holds it.
C24_WitnessFuzzy ==
    /\ fz_pc = "done"
    /\ fz_lines = << <<"#">>, <<"@", "1">>, <<"a">> >>
    /\ fz_buffer = << <<"@">>, <<"b">>, <<"a">> >>
    /\ fz_result.header = Some(NotFound)
    /\ fz_result.fuzzy.some
    /\ fz_result.region = Some([a |-> 0, b |-> 1])

====
